---- MODULE Spec2Model ----
(***************************************************************************)
(* Django MCP Bridge (src/main.py, src/oauth.py, src/settings.py).         *)
(*                                                                         *)
(* Python strings are modelled as sequences of symbols (<<>> is ""), and   *)
(* Python's None as the one-symbol sequence None, whose symbol occurs in   *)
(* no string.  An inbound REST request is processed in atomic blocks that  *)
(* end at the awaits of the code: the middleware up to `await call_next`,  *)
(* the endpoint up to the outbound HTTP await, the continuation after the  *)
(* backend answered, and the middleware's `finally`.                       *)
(***************************************************************************)
EXTENDS Integers, Sequences, FiniteSets, TLC

VARIABLES
    DJANGO_AUTH_TOKEN,   \* settings.py:22, the optional process-wide fallback
    current_user_token,  \* main.py:14, the ContextVar: context -> value
    pc,                  \* request -> position of its task
    request,             \* request -> the inbound request being processed
    token_var,           \* request -> the Token of ContextVar.set, or None
    outbound,            \* request -> sequence of HTTP calls sent upstream
    upstream,            \* request -> what the backend answered, or None
    response,            \* request -> HTTP response handed to the caller
    clock,               \* oauth: time.time() in whole seconds
    issued,              \* oauth: authorization codes produced by /login
    oauthResponse,       \* oauth: the answer given at the current second
    exchanges,           \* oauth: successful /token exchanges so far
    channel,             \* tool-call channel: "open" or "closed"
    toolLog              \* tool-call channel: messages served, with replies

vars == <<DJANGO_AUTH_TOKEN, current_user_token, pc, request, token_var,
          outbound, upstream, response, clock, issued, oauthResponse, exchanges,
          channel, toolLog>>

restVars == <<DJANGO_AUTH_TOKEN, current_user_token, pc, request, token_var,
              outbound, upstream, response>>
oauthVars == <<clock, issued, oauthResponse, exchanges>>
toolVars == <<channel, toolLog>>

-----------------------------------------------------------------------------
(* Bounds of the model *)

NumRequests == 2      \* concurrent inbound requests (SpecConc)
MaxHeaderLen == 4     \* symbols of an Authorization header (SpecHeader)
MaxId == 2            \* task / contact ids are 1..MaxId
MaxClock == 303       \* the clock stops here (seconds)
MaxIssueClock == 1    \* logins happen while clock <= MaxIssueClock
MaxCodes == 2         \* authorization codes issued
MaxExchanges == 2     \* the count of successful exchanges saturates here
MaxMessages == 3      \* messages served on the tool-call channel

-----------------------------------------------------------------------------
(* Python values *)

None == <<"<None>">>
Truthy(v) == v # None /\ v # <<>>
Or(a, b) == IF Truthy(a) THEN a ELSE b          \* Python's `a or b`

RECURSIVE SplitFrom(_, _, _)
\* str.split(sep) on a symbol sequence: the list of maximal pieces between
\* occurrences of sep (empty pieces kept), cur being the piece in progress.
SplitFrom(s, sep, cur) ==
    IF s = <<>> THEN <<cur>>
    ELSE IF Head(s) = sep THEN <<cur>> \o SplitFrom(Tail(s), sep, <<>>)
    ELSE SplitFrom(Tail(s), sep, Append(cur, Head(s)))

Split(s, sep) == SplitFrom(s, sep, <<>>)

StartsWithBearer(auth) ==
    Len(auth) >= 2 /\ auth[1] = "Bearer" /\ auth[2] = " "

\* model_dump() without exclude_none: every key, None values included
ExcludeNoneOff(a) == a

\* exclude_none=True of model_dump: the keys whose value is not None
ExcludeNone(a) == [k \in {f \in DOMAIN a : a[f] # None} |-> a[k]]

-----------------------------------------------------------------------------
(* The REST surface: operations, their inputs and FastAPI's validation *)

V == <<"v">>          \* some non-empty string value
Bad == <<"bad">>      \* a value outside a Literal[...] type
DefaultLimit == <<"10">>   \* main.py:83,97,118,169  limit: int = 10

Ops == {"health_check", "api_get_tasks", "api_get_latest_tasks", "api_get_stats",
        "api_update_status", "api_update_priority", "api_create_task",
        "gpt_update_task", "api_search_contacts", "api_create_contact",
        "api_update_contact", "api_delete_contact", "api_send_email"}

\* operations with a path parameter {task_id} / {contact_id}
IdOps == {"api_update_status", "api_update_priority", "gpt_update_task",
          "api_update_contact", "api_delete_contact"}

\* operations whose handler declares a request body
BodyOps == {"api_update_status", "api_update_priority", "api_create_task",
            "gpt_update_task", "api_create_contact", "api_update_contact",
            "api_send_email"}

Ids == 1..MaxId

ContactInput == {"name", "last_name", "email", "title", "mobile_phone",
                 "seniority", "departments", "country"}
UpdateContactInput == {"name", "last_name", "email", "title", "mobile_phone",
                       "seniority", "departments"}
CreateTaskModel == {"title", "priority"}
UpdateTaskInput == {"title", "task_type", "priority", "status", "due_date", "notes"}
SendEmailInput == {"to", "subject", "body", "cc", "bcc", "from"}

\* the Literal[...] fields of UpdateTaskInput
LiteralFields(op) ==
    IF op = "gpt_update_task" THEN {"task_type", "priority", "status"} ELSE {}

\* fields of the query string or of the JSON body of an operation
Fields(op) ==
    CASE op = "api_get_tasks" -> {"limit", "status"}
      [] op = "api_search_contacts" -> {"search", "limit"}
      [] op = "api_update_status" -> {"status"}
      [] op = "api_update_priority" -> {"priority"}
      [] op = "api_create_task" -> CreateTaskModel
      [] op = "gpt_update_task" -> UpdateTaskInput
      [] op = "api_create_contact" -> ContactInput
      [] op = "api_update_contact" -> UpdateContactInput
      [] op = "api_send_email" -> SendEmailInput
      [] OTHER -> {}

\* every field declared Optional with a default
RequiredNothing(op) == {}

\* fields without a default: pydantic rejects a body that lacks one of them
Required(op) ==
    CASE op = "api_create_task" -> {"title"}
      [] op = "api_create_contact" -> {"name", "email"}
      [] op = "api_send_email" -> {"to", "subject", "body"}
      [] OTHER -> {}

\* the values an inbound request may give a field (None: the field is absent)
FieldValues(op, f) ==
    IF f \in LiteralFields(op) THEN {None, V, Bad}
    ELSE IF op \in {"api_update_status", "api_update_priority"} THEN {None, <<>>, V}
    ELSE IF op \in {"api_get_tasks", "api_search_contacts"} /\ f # "limit"
         THEN {None, <<>>, V}
    ELSE IF f = "limit" THEN {None, <<"5">>}
    ELSE {None, V}

AllArgs(op) ==
    {a \in [Fields(op) -> {None, <<>>, V, Bad, <<"5">>}] :
        \A f \in Fields(op) : a[f] \in FieldValues(op, f)}

\* two argument sets per operation: nothing given, every field given
PlainArgs(op) ==
    {[f \in Fields(op) |-> None],
     [f \in Fields(op) |-> IF f = "limit" THEN <<"5">> ELSE V]}

\* the decorator of api_send_email registers the path "gamil/send_mail/",
\* which has no leading "/": whether a request path can match it depends on
\* the router, so both outcomes are kept.
RouteMatches(op) == IF op = "api_send_email" THEN BOOLEAN ELSE {TRUE}

\* the inbound requests over the given operations and headers, Args(op)
\* being the argument sets tried for op.  A request without a body gives no
\* field.
Inputs(ops, headers, Args(_)) ==
    UNION {
      {q \in [op : {op}, header : headers,
              id : IF op \in IdOps THEN Ids ELSE {1},
              matched : RouteMatches(op),
              hasBody : IF op \in BodyOps THEN BOOLEAN ELSE {FALSE},
              args : Args(op)] :
          (op \in BodyOps /\ ~q.hasBody) => \A f \in Fields(op) : q.args[f] = None}
      : op \in ops}

-----------------------------------------------------------------------------
(* What an endpoint does up to its first outbound await *)

Reply(status, body) == [kind |-> "reply", status |-> status, body |-> body]

Call(method, endpoint, params, body) ==
    [kind |-> "call", method |-> method, endpoint |-> endpoint,
     params |-> params, body |-> body]

NoFields == [k \in {} |-> None]

\* FastAPI before the handler runs: route lookup, then request validation
Validation(q) ==
    IF ~q.matched THEN Reply(404, [detail |-> "Not Found"])
    ELSE IF q.op \in BodyOps /\ ~q.hasBody
         THEN Reply(422, [detail |-> "Field required"])
    ELSE IF \E f \in Required(q.op) : q.args[f] = None
         THEN Reply(422, [detail |-> "Field required"])
    ELSE IF \E f \in LiteralFields(q.op) : q.args[f] = Bad
         THEN Reply(422, [detail |-> "Input should be one of the literals"])
    ELSE Reply(200, [detail |-> "valid"])

Limit(a) == IF a["limit"] = None THEN DefaultLimit ELSE a["limit"]

\* params = {"limit": limit}; if filter: params[key] = filter
QueryParams(a, key) ==
    [k \in {"limit"} \cup (IF Truthy(a[key]) THEN {key} ELSE {}) |->
        IF k = "limit" THEN Limit(a) ELSE a[k]]

\* data.get(key); if not value: return {"error": "Missing <key> field"}
UpdateField(q, key, suffix) ==
    IF ~Truthy(q.args[key])
    THEN Reply(200, [error |-> "Missing " \o key \o " field"])
    ELSE Call("PATCH", <<"tasks", ToString(q.id), suffix>>, NoFields,
              [k \in {key} |-> q.args[key]])

PartialUpdate(q, collection) ==
    LET payload == ExcludeNone(q.args) IN
    IF DOMAIN payload = {}
    THEN Reply(200, [error |-> "No fields provided to update."])
    ELSE Call("PATCH", <<collection, ToString(q.id)>>, NoFields, payload)

\* the handler of each route, down to its call of fetch_from_django
Handler(q) ==
    CASE q.op = "health_check" ->
            Reply(200, [status |-> "ok", message |-> "Django MCP Bridge is running!"])
      [] q.op = "api_get_tasks" ->
            Call("GET", <<"tasks">>, QueryParams(q.args, "status"), NoFields)
      [] q.op = "api_get_latest_tasks" ->
            Call("GET", <<"tasks", "latest">>, NoFields, NoFields)
      [] q.op = "api_get_stats" ->
            Call("GET", <<"tasks", "statistics">>, NoFields, NoFields)
      [] q.op = "api_update_status" -> UpdateField(q, "status", "update-status")
      [] q.op = "api_update_priority" -> UpdateField(q, "priority", "update-priority")
      [] q.op = "api_create_task" ->
            Call("POST", <<"tasks">>, NoFields,
                 [k \in CreateTaskModel |->
                    IF k = "priority" /\ q.args[k] = None THEN <<"medium">>
                    ELSE q.args[k]])
      [] q.op = "gpt_update_task" -> PartialUpdate(q, "tasks")
      [] q.op = "api_search_contacts" ->
            Call("GET", <<"contacts">>, QueryParams(q.args, "search"), NoFields)
      [] q.op = "api_create_contact" ->
            Call("POST", <<"contacts">>, NoFields, ExcludeNone(q.args))
      [] q.op = "api_update_contact" -> PartialUpdate(q, "contacts")
      [] q.op = "api_delete_contact" ->
            Call("DELETE", <<"contacts", ToString(q.id)>>, NoFields, NoFields)
      [] q.op = "api_send_email" ->
            Call("POST", <<"email", "send">>, NoFields, ExcludeNone(q.args))

Endpoint(q) ==
    IF Validation(q).status # 200 THEN Validation(q) ELSE Handler(q)

-----------------------------------------------------------------------------
(* fetch_from_django *)

\* token = current_user_token.get() or DJANGO_AUTH_TOKEN
ResolveTokenFallbackFirst(active, fallback) == Or(fallback, active)

ResolveToken(active, fallback) == Or(active, fallback)

\* the branches of the if/elif chain on method.upper()
DispatchedMethods == {"GET", "POST", "PATCH", "PUT"}

\* fetch_from_django up to the outbound await: an immediate result, or the
\* HTTP request it sends.  A method outside the if/elif chain leaves `resp`
\* unbound, `resp.status_code` raises and the except clause returns the error.
Dispatch(token, c) ==
    IF c.method \in DispatchedMethods
    THEN [kind |-> "send",
          req |-> [method |-> c.method, endpoint |-> c.endpoint, token |-> token,
                   params |-> IF c.method = "GET" THEN c.params ELSE NoFields,
                   json |-> IF c.method = "GET" THEN NoFields ELSE c.body]]
    ELSE Reply(200, [error |-> "cannot access local variable 'resp'"])

\* fetch_from_django without lines 20-21
FetchStartNoTokenCheck(token, c) == Dispatch(token, c)

FetchStart(token, c) ==
    IF ~Truthy(token) THEN Reply(200, [error |-> "Authentication required."])
    ELSE Dispatch(token, c)

Statuses == {200, 201, 204, 301, 404, 500}

\* what the backend can answer to one HTTP request: a response (whose body
\* decodes as JSON or not), a network error, or nothing within the timeout
BackendOutcomes ==
    [kind : {"response"}, status : Statuses, json : BOOLEAN]
      \cup [kind : {"connect_error", "timeout"}, status : {0}, json : {FALSE}]

IsSuccess(status) == status >= 200 /\ status < 300
IsError(status) == status >= 400

\* the result where raise_for_status does not raise: 204, resp.json() and
\* the except clause for what the client or the decoder raises
Decode(o) ==
    IF o.kind = "connect_error" THEN [error |-> "ConnectError"]
    ELSE IF o.kind = "timeout" THEN [error |-> "ReadTimeout"]
    ELSE IF o.status = 204 THEN [success |-> TRUE]
    ELSE IF o.json THEN [json |-> "backend"]
    ELSE [error |-> "JSONDecodeError"]

\* fetch_from_django without resp.raise_for_status()
FetchFinishNoRaise(o, raises3xx) == Decode(o)

\* fetch_from_django after the await.  raise_for_status raises on 4xx/5xx;
\* on 3xx it raises or not with the httpx release (raises3xx).
FetchFinish(o, raises3xx) ==
    IF o.kind = "response" /\ o.status # 204
       /\ (IsError(o.status) \/ (raises3xx /\ ~IsSuccess(o.status)))
    THEN [error |-> "HTTPStatusError"]
    ELSE Decode(o)

-----------------------------------------------------------------------------
(* The request-scoped token and the life of one inbound request *)

\* A plain module-level variable instead of a ContextVar: one cell for all tasks
ContextOfShared(r) == 1

\* current_user_token is a ContextVar and every inbound request is served by
\* its own task, which runs in its own copy of the context
ContextOf(r) == r

Active(r) == current_user_token[ContextOf(r)]

\* the Token object returned by ContextVar.set (token_var stays None without it)
NoTokenVar == [set |-> FALSE, old_value |-> None]

NoRequest == [op |-> "none", header |-> None, id |-> 1, matched |-> TRUE,
              hasBody |-> FALSE, args |-> NoFields]
NoOutcome == [kind |-> "none", status |-> 0, json |-> FALSE]
NoResponse == [status |-> 0, body |-> NoFields]

\* request.headers.get("Authorization", "")
HeaderGet(h) == IF h = None THEN <<>> ELSE h

\* auth.split(" ")[1]
BearerToken(auth) == Split(auth, " ")[2]

\* the finally clause, without the reset
AfterFinallyNoReset(cur, tv) == cur

\* if token_var: current_user_token.reset(token_var)
\* (a Token object is always truthy, so the test is `token_var is not None`)
AfterFinally(cur, tv) == IF tv.set THEN tv.old_value ELSE cur

\* auth_middleware, lines 51-56: a request arrives, the middleware installs
\* its bearer token and awaits call_next
auth_middleware(r, inputs) ==
    /\ pc[r] = "new"
    /\ \E q \in inputs :
        LET auth == HeaderGet(q.header) IN
        /\ request' = [request EXCEPT ![r] = q]
        /\ IF StartsWithBearer(auth)
           THEN /\ token_var' = [token_var EXCEPT
                        ![r] = [set |-> TRUE, old_value |-> Active(r)]]
                /\ current_user_token' = [current_user_token EXCEPT
                        ![ContextOf(r)] = BearerToken(auth)]
           ELSE UNCHANGED <<token_var, current_user_token>>
    /\ pc' = [pc EXCEPT ![r] = "dispatch"]
    /\ UNCHANGED <<DJANGO_AUTH_TOKEN, outbound, upstream, response>>
    /\ UNCHANGED <<oauthVars, toolVars>>

\* the routed endpoint, its logic_* function and fetch_from_django up to the
\* await of the outbound HTTP call, or to their return
run_endpoint(r) ==
    /\ pc[r] = "dispatch"
    /\ LET e == Endpoint(request[r])
           f == IF e.kind = "call"
                THEN FetchStart(ResolveToken(Active(r), DJANGO_AUTH_TOKEN), e)
                ELSE e
       IN IF f.kind = "send"
          THEN /\ outbound' = [outbound EXCEPT ![r] = Append(@, f.req)]
               /\ pc' = [pc EXCEPT ![r] = "awaiting"]
               /\ UNCHANGED response
          ELSE /\ response' = [response EXCEPT
                        ![r] = [status |-> f.status, body |-> f.body]]
               /\ pc' = [pc EXCEPT ![r] = "returning"]
               /\ UNCHANGED outbound
    /\ UNCHANGED <<DJANGO_AUTH_TOKEN, current_user_token, request, token_var, upstream>>
    /\ UNCHANGED <<oauthVars, toolVars>>

\* the backend answers (or the 10 s timeout passes): fetch_from_django
\* lines 38-42 turn the outcome into the result, returned with status 200
backend_answers(r, outcomes) ==
    /\ pc[r] = "awaiting"
    /\ \E o \in outcomes, raises3xx \in BOOLEAN :
        /\ upstream' = [upstream EXCEPT ![r] = o]
        /\ response' = [response EXCEPT
                ![r] = [status |-> 200, body |-> FetchFinish(o, raises3xx)]]
    /\ pc' = [pc EXCEPT ![r] = "returning"]
    /\ UNCHANGED <<DJANGO_AUTH_TOKEN, current_user_token, request, token_var, outbound>>
    /\ UNCHANGED <<oauthVars, toolVars>>

\* `await call_next(request)` raises instead of returning: the task is
\* cancelled at an await (CancelledError is no Exception, line 41 lets it pass)
handler_fails(r) ==
    /\ pc[r] \in {"dispatch", "awaiting"}
    /\ pc' = [pc EXCEPT ![r] = "raising"]
    /\ UNCHANGED <<DJANGO_AUTH_TOKEN, current_user_token, request, token_var,
                   outbound, upstream, response>>
    /\ UNCHANGED <<oauthVars, toolVars>>

\* auth_middleware, lines 57-58: the finally clause, on return and on raise
auth_middleware_finally(r) ==
    /\ pc[r] \in {"returning", "raising"}
    /\ current_user_token' = [current_user_token EXCEPT
            ![ContextOf(r)] = AfterFinally(@, token_var[r])]
    /\ pc' = [pc EXCEPT ![r] = IF pc[r] = "returning" THEN "done" ELSE "failed"]
    /\ UNCHANGED <<DJANGO_AUTH_TOKEN, request, token_var, outbound, upstream, response>>
    /\ UNCHANGED <<oauthVars, toolVars>>

-----------------------------------------------------------------------------
(* Specifications of the REST surface *)

\* DJANGO_AUTH_TOKEN = os.getenv("DJANGO_AUTH_TOKEN"): unset, empty or a token
Fallbacks == {None, <<>>, <<"f">>}

InitOther ==
    /\ clock = 0
    /\ issued = {}
    /\ oauthResponse = [endpoint |-> "none"]
    /\ exchanges = 0
    /\ channel = "open"
    /\ toolLog = <<>>

InitRequests(n, fallbacks) ==
    /\ DJANGO_AUTH_TOKEN \in fallbacks
    /\ current_user_token = [c \in 1..n |-> None]
    /\ pc = [r \in 1..n |-> "new"]
    /\ request = [r \in 1..n |-> NoRequest]
    /\ token_var = [r \in 1..n |-> NoTokenVar]
    /\ outbound = [r \in 1..n |-> <<>>]
    /\ upstream = [r \in 1..n |-> NoOutcome]
    /\ response = [r \in 1..n |-> NoResponse]

Bearer(t) == <<"Bearer", " ">> \o t

\* SpecRest: one request, every argument set of every operation
RestHeaders == {None, Bearer(<<"a">>), Bearer(<<>>)}
RestInputs == Inputs(Ops, RestHeaders, AllArgs)

InitRest == InitRequests(1, Fallbacks) /\ InitOther

NextRest ==
    \E r \in DOMAIN pc :
        \/ auth_middleware(r, RestInputs)
        \/ run_endpoint(r)
        \/ backend_answers(r, BackendOutcomes)
        \/ handler_fails(r)
        \/ auth_middleware_finally(r)

SpecRest == InitRest /\ [][NextRest]_vars

\* SpecHeader: one request, every Authorization header of up to MaxHeaderLen
\* symbols, two argument sets per operation
HeaderSyms == {"Bearer", " ", "a"}
AllHeaders == {None} \cup UNION {[1..n -> HeaderSyms] : n \in 0..MaxHeaderLen}
HeaderInputs == Inputs(Ops, AllHeaders, PlainArgs)

NextHeader ==
    \E r \in DOMAIN pc :
        \/ auth_middleware(r, HeaderInputs)
        \/ run_endpoint(r)
        \/ backend_answers(r, BackendOutcomes)
        \/ handler_fails(r)
        \/ auth_middleware_finally(r)

SpecHeader == InitRest /\ [][NextHeader]_vars

\* SpecConc: NumRequests requests in flight at once, interleaved at their
\* awaits, each with no header or with the token a or b
ConcOps == {"health_check", "api_get_tasks", "api_create_task", "api_delete_contact"}
ConcHeaders == {None, Bearer(<<"a">>), Bearer(<<"b">>)}
GivenArgs(op) == {[f \in Fields(op) |-> IF f = "limit" THEN <<"5">> ELSE V]}
ConcInputs == Inputs(ConcOps, ConcHeaders, GivenArgs)
ConcOutcomes == {o \in BackendOutcomes : o.kind = "timeout" \/ (o.status = 200 /\ o.json)}

InitConc == InitRequests(NumRequests, {None, <<"f">>}) /\ InitOther

NextConc ==
    \E r \in DOMAIN pc :
        \/ auth_middleware(r, ConcInputs)
        \/ run_endpoint(r)
        \/ backend_answers(r, ConcOutcomes)
        \/ handler_fails(r)
        \/ auth_middleware_finally(r)

SpecConc == InitConc /\ [][NextConc]_vars

-----------------------------------------------------------------------------
(* Claims about the REST surface *)

Reqs == DOMAIN pc
Calls(r) == 1..Len(outbound[r])
Returned(r) == pc[r] \in {"returning", "done"}
AuthRequired == [error |-> "Authentication required."]

\* the header reads "Bearer <token>" with a non-empty token free of spaces
IsBearerForm(h) ==
    /\ h # None /\ Len(h) >= 3
    /\ h[1] = "Bearer" /\ h[2] = " "
    /\ \A k \in 3..Len(h) : h[k] # " "
OwnToken(h) == SubSeq(h, 3, Len(h))

\* C1: of requests processed concurrently, every outbound call made for a
\* request with `Authorization: Bearer A` bears A, whatever the token of the
\* other requests and however they interleave; a request without a header
\* bears the fallback, never another request's token.
C1_OwnTokenUnderInterleaving ==
    \A r \in Reqs : \A i \in Calls(r) :
        IF IsBearerForm(request[r].header)
        THEN outbound[r][i].token = OwnToken(request[r].header)
        ELSE outbound[r][i].token = DJANGO_AUTH_TOKEN

\* two requests with different tokens are both awaiting the backend
C1_Witness ==
    \E r1, r2 \in Reqs :
        /\ pc[r1] = "awaiting" /\ pc[r2] = "awaiting"
        /\ request[r1].header = Bearer(<<"a">>)
        /\ request[r2].header = Bearer(<<"b">>)
        /\ outbound[r1][1].token = <<"a">>
        /\ outbound[r2][1].token = <<"b">>

\* C2: with no Authorization header and no fallback token, an operation that
\* goes through fetch_from_django returns exactly
\* {error: "Authentication required."} and sends nothing; and no outbound
\* call is ever sent without a token.
C2_NoTokenNoCall ==
    \A r \in Reqs :
        /\ \A i \in Calls(r) : Truthy(outbound[r][i].token)
        /\ (pc[r] # "new" /\ request[r].header = None /\ ~Truthy(DJANGO_AUTH_TOKEN))
            => /\ outbound[r] = <<>>
               /\ (Returned(r) /\ Endpoint(request[r]).kind = "call")
                    => response[r] = [status |-> 200, body |-> AuthRequired]

C2_Witness ==
    \E r \in Reqs :
        /\ pc[r] = "done" /\ request[r].header = None /\ DJANGO_AUTH_TOKEN = None
        /\ request[r].op = "api_create_task"
        /\ response[r].body = AuthRequired /\ outbound[r] = <<>>

\* C3: once an inbound request has finished, by return or by failure, the
\* active token of its context is back to what it was before the request
\* (none), under every interleaving of overlapping requests.
C3_TokenReverted ==
    \A r \in Reqs : pc[r] \in {"done", "failed"} => Active(r) = None

\* a request that installed its token has failed while another request,
\* which installed its own, is still in flight
C3_Witness ==
    \E r1, r2 \in Reqs :
        /\ pc[r1] = "failed" /\ token_var[r1].set
        /\ pc[r2] = "awaiting" /\ token_var[r2].set
        /\ Active(r1) = None /\ Active(r2) = <<"b">>

Resolvable(r) ==
    IsBearerForm(request[r].header) \/ Truthy(DJANGO_AUTH_TOKEN)

\* C5: delete contact, invoked with a resolvable token, issues exactly one
\* outbound DELETE to contacts/{id}/ with neither query parameters nor body,
\* and returns {success: true} when the backend answers 204.
C5_DeleteIssuesOneDelete ==
    \A r \in Reqs :
        (request[r].op = "api_delete_contact" /\ Resolvable(r) /\ Returned(r))
            => /\ Len(outbound[r]) = 1
               /\ outbound[r][1].method = "DELETE"
               /\ outbound[r][1].endpoint = <<"contacts", ToString(request[r].id)>>
               /\ outbound[r][1].params = NoFields
               /\ outbound[r][1].json = NoFields
               /\ (upstream[r].status = 204 => response[r].body = [success |-> TRUE])

\* the backend did not deliver a decodable success
UpstreamFailure(o) ==
    \/ o.kind \in {"connect_error", "timeout"}
    \/ (o.kind = "response" /\ o.status >= 400)
    \/ (o.kind = "response" /\ o.status # 204 /\ ~o.json)

\* C6: a call of fetch_from_django makes at most one outbound attempt and
\* returns either a decoded value or {error: message}: once the backend has
\* answered, the request returns with status 200, the result is an error
\* exactly in one shape, and a non-2xx/3xx status, network error, timeout or
\* undecodable body always yields {error: message}; nothing propagates.
C6_OneAttemptErrorAsResult ==
    \A r \in Reqs :
        /\ Len(outbound[r]) <= 1
        /\ upstream[r].kind # "none" =>
            /\ Returned(r)
            /\ response[r].status = 200
            /\ DOMAIN response[r].body \in {{"error"}, {"json"}, {"success"}}
            /\ UpstreamFailure(upstream[r]) => DOMAIN response[r].body = {"error"}
            /\ (IsSuccess(upstream[r].status) /\ ~UpstreamFailure(upstream[r]))
                    => DOMAIN response[r].body # {"error"}

C6_Witness ==
    \E r \in Reqs :
        /\ pc[r] = "done" /\ upstream[r].kind = "response" /\ upstream[r].status = 500
        /\ upstream[r].json
        /\ response[r] = [status |-> 200, body |-> [error |-> "HTTPStatusError"]]
        /\ Len(outbound[r]) = 1

\* the required fields the request leaves out, as the operations' table has
\* them: status / priority of the two update operations included
ClaimedRequired(op) ==
    CASE op = "api_update_status" -> {"status"}
      [] op = "api_update_priority" -> {"priority"}
      [] op = "api_create_task" -> {"title"}
      [] op = "api_create_contact" -> {"name", "email"}
      [] op = "api_send_email" -> {"to", "subject", "body"}
      [] OTHER -> {}

SchemaValidated(op) ==
    op \in {"api_create_task", "api_create_contact", "api_send_email"}

OmitsRequired(q) == \E f \in ClaimedRequired(q.op) : q.args[f] = None

Is4xx(status) == status >= 400 /\ status < 500

\* C8 as stated: every request that omits a required field of its operation
\* is rejected with a 4xx status before any outbound call.
C8_MissingFieldIs4xx ==
    \A r \in Reqs :
        (Returned(r) /\ OmitsRequired(request[r]))
            => Is4xx(response[r].status) /\ outbound[r] = <<>>

\* C8, amended: a request that omits a field required by its body schema
\* (create task, create contact, send email), or has no body, is rejected
\* with a 4xx status before any outbound call; update status / priority with
\* a body that lacks the field, or has it empty, is rejected before any
\* outbound call too, but with status 200 and {error: "Missing <field>
\* field"}; every result with an `error` field is returned with status 200.
C8_MissingFieldRejected ==
    \A r \in Reqs : LET q == request[r] IN
        Returned(r) =>
            /\ OmitsRequired(q) => outbound[r] = <<>>
            /\ (OmitsRequired(q) /\ (~q.hasBody \/ SchemaValidated(q.op)))
                    => Is4xx(response[r].status)
            /\ (q.hasBody /\ q.op = "api_update_status" /\ ~Truthy(q.args["status"]))
                    => response[r] = [status |-> 200,
                                      body |-> [error |-> "Missing status field"]]
            /\ (q.hasBody /\ q.op = "api_update_priority" /\ ~Truthy(q.args["priority"]))
                    => response[r] = [status |-> 200,
                                      body |-> [error |-> "Missing priority field"]]
            /\ "error" \in DOMAIN response[r].body => response[r].status = 200

C8_Witness ==
    \E r \in Reqs :
        /\ pc[r] = "done" /\ request[r].op = "api_update_status"
        /\ request[r].hasBody /\ request[r].args["status"] = None
        /\ response[r].status = 200
        /\ response[r].body = [error |-> "Missing status field"]

IsPartialUpdate(q) == q.op \in {"gpt_update_task", "api_update_contact"}
Collection(q) == IF q.op = "gpt_update_task" THEN "tasks" ELSE "contacts"
SetFields(q) == {f \in Fields(q.op) : q.args[f] # None}
Valid(q) == Validation(q).status = 200
NoFieldsError == [status |-> 200, body |-> [error |-> "No fields provided to update."]]

\* exactly one PATCH to <collection>/{id}/ whose body is exactly the set fields
OnePatchOfSetFields(r) ==
    /\ Len(outbound[r]) = 1
    /\ outbound[r][1].method = "PATCH"
    /\ outbound[r][1].endpoint = <<Collection(request[r]), ToString(request[r].id)>>
    /\ DOMAIN outbound[r][1].json = SetFields(request[r])
    /\ \A f \in SetFields(request[r]) : outbound[r][1].json[f] = request[r].args[f]

\* C9 as stated: with no field set, a partial update returns "No fields
\* provided to update." and sends nothing, resolvable token or not; with a
\* field set it performs exactly one PATCH whose body is the set fields.
C9_PartialUpdate ==
    \A r \in Reqs : LET q == request[r] IN
        (IsPartialUpdate(q) /\ Valid(q) /\ Returned(r)) =>
            IF SetFields(q) = {}
            THEN response[r] = NoFieldsError /\ outbound[r] = <<>>
            ELSE OnePatchOfSetFields(r)

\* C9, amended: the same, the PATCH being performed when a token is
\* resolvable (without one nothing is sent, see C2).
C9_PartialUpdateWithToken ==
    \A r \in Reqs : LET q == request[r] IN
        (IsPartialUpdate(q) /\ Valid(q) /\ Returned(r)) =>
            IF SetFields(q) = {}
            THEN response[r] = NoFieldsError /\ outbound[r] = <<>>
            ELSE IF Resolvable(r) THEN OnePatchOfSetFields(r)
            ELSE outbound[r] = <<>>

C9_Witness ==
    \E r \in Reqs :
        /\ pc[r] = "done" /\ request[r].op = "api_update_contact"
        /\ SetFields(request[r]) = {"email", "title"}
        /\ OnePatchOfSetFields(r)
        /\ upstream[r].status = 200

\* C10: a request whose header reads `Bearer <token>` with a non-empty token
\* has that token on its outbound call, fallback configured or not; the
\* fallback is attached only when the request installed no token: header
\* absent, not of Bearer form, or empty token after "Bearer ".
C10_OwnTokenBeforeFallback ==
    \A r \in Reqs : \A i \in Calls(r) :
        LET h == request[r].header
            tok == outbound[r][i].token
        IN /\ IsBearerForm(h) => tok = OwnToken(h)
           /\ tok = <<"f">> =>
                \/ h = None
                \/ ~(Len(h) >= 2 /\ h[1] = "Bearer" /\ h[2] = " ")
                \/ Len(h) = 2
                \/ h[3] = " "

C10_Witness ==
    \E r \in Reqs :
        /\ pc[r] = "done" /\ DJANGO_AUTH_TOKEN = <<"f">>
        /\ request[r].header = Bearer(<<"a", "a">>)
        /\ Len(outbound[r]) = 1 /\ outbound[r][1].token = <<"a", "a">>

-----------------------------------------------------------------------------
(* The OAuth bridge (src/oauth.py) *)

MCP_SECRET_KEY == "secret"
expires_in == 3600     \* "expires_in": 3600

\* the code's lifetime, had max_age been given the token's expires_in
MaxAgeAsExpiresIn == expires_in

\* serializer.loads(code, max_age=300)
max_age == 300

\* URLSafeTimedSerializer: the payload, the time of signing and a MAC of both
\* under the key (an ideal MAC: equal only for equal key, payload and time)
Sign(key, payload, ts) == <<key, payload, ts>>
Dumps(payload, now) ==
    [payload |-> payload, ts |-> now, sig |-> Sign(MCP_SECRET_KEY, payload, now)]

\* serializer.loads(code, max_age): the payload, or None where it raises
\* BadSignature / SignatureExpired
Loads(code, maxAge, now) ==
    IF code.sig # Sign(MCP_SECRET_KEY, code.payload, code.ts) THEN None
    ELSE IF now - code.ts > maxAge THEN None
    ELSE code.payload

Tokens == {<<"t1">>, <<"t2">>}

\* what the backend's token endpoint can answer to {email, password}
LoginAnswers ==
    [kind : {"response"}, status : {200, 401},
     data : [{"access", "token", "key"} -> {None} \cup Tokens]]
      \cup [kind : {"connect_error"}, status : {0},
            data : {[k \in {"access", "token", "key"} |-> None]}]

\* data.get("access") or data.get("token") or data.get("key")
DjangoToken(data) == Or(data["access"], Or(data["token"], data["key"]))

\* redirect_uri without and with a query string
RedirectUris == {<<"https://chat/cb">>, <<"https://chat/cb", "?", "x=1">>}

\* separator = "&" if "?" in redirect_uri else "?"
Separator(uri) == IF \E k \in 1..Len(uri) : uri[k] = "?" THEN "&" ELSE "?"

\* POST /oauth/login
login_and_authorize ==
    /\ clock <= MaxIssueClock
    /\ Cardinality(issued) < MaxCodes
    /\ \E ans \in LoginAnswers, uri \in RedirectUris :
        IF ans.kind # "response"
        THEN /\ oauthResponse' = [endpoint |-> "login", status |-> 500]
             /\ UNCHANGED issued
        ELSE IF ans.status # 200
        THEN /\ oauthResponse' = [endpoint |-> "login", status |-> 401]
             /\ UNCHANGED issued
        ELSE IF ~Truthy(DjangoToken(ans.data))
        THEN /\ oauthResponse' = [endpoint |-> "login", status |-> 400]
             /\ UNCHANGED issued
        ELSE LET auth_code == Dumps(DjangoToken(ans.data), clock) IN
             /\ issued' = issued \cup {auth_code}
             /\ oauthResponse' = [endpoint |-> "login", status |-> 303,
                                  location |-> <<uri, Separator(uri), auth_code>>]
    /\ UNCHANGED <<clock, exchanges>>
    /\ UNCHANGED <<restVars, toolVars>>

\* codes a caller can present without the key: an issued code with another
\* payload or a fresh timestamp under its old signature, and codes signed
\* with a key of the caller's
Presentable ==
    issued
      \cup {[c EXCEPT !.payload = t] : c \in issued, t \in Tokens}
      \cup {[c EXCEPT !.ts = clock] : c \in issued}
      \cup {[payload |-> t, ts |-> clock, sig |-> Sign("other", t, clock)] : t \in Tokens}

\* POST /oauth/token
exchange_token ==
    /\ \E code \in Presentable :
        LET django_token == Loads(code, max_age, clock) IN
        IF django_token = None
        THEN /\ oauthResponse' = [endpoint |-> "token", code |-> code, status |-> 400,
                                  detail |-> "Invalid or expired code"]
             /\ UNCHANGED exchanges
        ELSE /\ oauthResponse' = [endpoint |-> "token", code |-> code, status |-> 200,
                                  access_token |-> django_token,
                                  token_type |-> "Bearer", expires_in |-> expires_in]
             /\ exchanges' = IF exchanges < MaxExchanges THEN exchanges + 1
                             ELSE exchanges
    /\ UNCHANGED <<clock, issued>>
    /\ UNCHANGED <<restVars, toolVars>>

\* a second passes; the answers of the second before have been delivered
Tick ==
    /\ clock < MaxClock
    /\ clock' = clock + 1
    /\ oauthResponse' = [endpoint |-> "none"]
    /\ UNCHANGED <<issued, exchanges>>
    /\ UNCHANGED <<restVars, toolVars>>

InitOAuth == InitRequests(1, {None}) /\ InitOther

NextOAuth == login_and_authorize \/ exchange_token \/ Tick

SpecOAuth == InitOAuth /\ [][NextOAuth]_vars

\* C4: a code produced by signing T at t0 is valid by time only: every
\* exchange at elapsed time <= 300 s returns access_token = T, however many
\* exchanges came before, and every exchange at elapsed time >= 301 s, or of
\* a code whose signature does not verify, returns 400 "Invalid or expired
\* code" and no token.
C4_CodeValidByTimeOnly ==
    oauthResponse.endpoint = "token" =>
        LET c == oauthResponse.code IN
        IF c \in issued /\ clock - c.ts <= 300
        THEN /\ oauthResponse.status = 200
             /\ oauthResponse.access_token = c.payload
             /\ \E t0 \in 0..clock : c = Dumps(c.payload, t0)
        ELSE /\ oauthResponse.status = 400
             /\ oauthResponse.detail = "Invalid or expired code"
             /\ "access_token" \notin DOMAIN oauthResponse

\* the same code is exchanged again, 300 s after it was signed
C4_Witness ==
    /\ oauthResponse.endpoint = "token" /\ oauthResponse.status = 200
    /\ Cardinality(issued) = 1 /\ exchanges = 2
    /\ oauthResponse.code.ts = 1 /\ clock = 301
    /\ oauthResponse.access_token = <<"t2">>

\* a code is refused 301 s after it was signed
C4_WitnessExpired ==
    /\ oauthResponse.endpoint = "token" /\ oauthResponse.status = 400
    /\ oauthResponse.code \in issued
    /\ clock - oauthResponse.code.ts = 301

-----------------------------------------------------------------------------
(* The tool-call channel.  src/main.py creates the MCP server and mounts its
   SSE transport, and registers no list_tools / call_tool handler on it; the
   handlers are modelled from the specification's sections 4.5 and 8. *)

ToolCatalog == {"get_crm_tasks"}
ToolNames == ToolCatalog \cup {"nonexistent_tool", "delete_everything"}

\* how the operation behind a catalogued tool ends
ToolOutcomes == {"returns", "raises"}

TextContent(text) == [kind |-> "content", type |-> "text", text |-> text]

\* call_tool with the failure of an unknown name left to the transport
CallToolReplyUnknownRaises(name, outcome) ==
    IF name \notin ToolCatalog THEN [kind |-> "fault", type |-> "none", text |-> name]
    ELSE IF outcome = "raises" THEN TextContent("Error: " \o name)
    ELSE TextContent("result of " \o name)

\* call_tool: the content item returned for a tool name and the outcome of
\* its operation
CallToolReply(name, outcome) ==
    IF name \notin ToolCatalog THEN TextContent("Unknown tool: " \o name)
    ELSE IF outcome = "raises" THEN TextContent("Error: " \o name)
    ELSE TextContent("result of " \o name)

Serve(entry) ==
    /\ channel = "open"
    /\ Len(toolLog) < MaxMessages
    /\ toolLog' = Append(toolLog, entry)
    /\ channel' = IF entry.reply.kind = "fault" THEN "faulted" ELSE channel
    /\ UNCHANGED <<restVars, oauthVars>>

list_tools ==
    Serve([message |-> "list_tools", name |-> "",
           reply |-> [kind |-> "content", type |-> "tools", text |-> "catalog"]])

call_tool ==
    \E name \in ToolNames, outcome \in ToolOutcomes :
        Serve([message |-> "call_tool", name |-> name,
               reply |-> CallToolReply(name, outcome)])

\* handle_sse: the client ends the SSE connection
disconnect ==
    /\ channel = "open"
    /\ channel' = "closed_by_client"
    /\ UNCHANGED toolLog
    /\ UNCHANGED <<restVars, oauthVars>>

InitTools == InitRequests(1, {None}) /\ InitOther

NextTools == list_tools \/ call_tool \/ disconnect

SpecTools == InitTools /\ [][NextTools]_vars

\* C7: a call_tool whose name is not in the catalog returns a text content
\* item containing "Unknown tool: <name>", never a transport fault; no
\* failed call closes the channel, which goes on serving list_tools and
\* call_tool until the client leaves.
C7_ChannelSurvivesFailures ==
    /\ channel \in {"open", "closed_by_client"}
    /\ \A i \in 1..Len(toolLog) :
        /\ toolLog[i].reply.kind = "content"
        /\ (toolLog[i].message = "call_tool" /\ toolLog[i].name \notin ToolCatalog)
            => toolLog[i].reply = TextContent("Unknown tool: " \o toolLog[i].name)
    /\ (channel = "open" /\ Len(toolLog) < MaxMessages)
            => ENABLED list_tools /\ ENABLED call_tool

\* after an unknown tool and a raising operation, a call is served normally
C7_Witness ==
    /\ Len(toolLog) = 3 /\ channel = "open"
    /\ toolLog[1].name = "nonexistent_tool"
    /\ toolLog[1].reply.text = "Unknown tool: nonexistent_tool"
    /\ toolLog[2].reply.text = "Error: get_crm_tasks"
    /\ toolLog[3].reply.text = "result of get_crm_tasks"

====
